---- MODULE Spec2Model ----
(***************************************************************************)
(* A model of Drash's HttpRequestService                                   *)
(* (src/services/http_request_service.ts): URL decomposition, response     *)
(* content-type negotiation, body decoding and request hydration.          *)
(*                                                                         *)
(* Representation.  A JavaScript string is a sequence of tokens; a token   *)
(* is a run of characters that none of the code's string operations        *)
(* (split("?"), split("&"), includes(...), the boundary regex) cuts in     *)
(* two.  "" is the empty sequence.  null and undefined are the two         *)
(* one-token sequences Null and Undefined, which no real string equals.    *)
(* A JavaScript value that may be an object is a record [t, m]: t is its   *)
(* type tag and m its key -> value mapping (empty unless t = "object").    *)
(***************************************************************************)
EXTENDS Integers, Sequences, FiniteSets, TLC

\* The most requests one server (one options object) handles in a behaviour.
MaxRequests == 3
\* The most tokens in a URL handed to getUrlQueryString / getUrlPath directly.
MaxUrlLen == 4

----------------------------------------------------------------------------
\* JavaScript values

Null == <<"#null">>
Undefined == <<"#undefined">>

\* JavaScript truthiness of a string | null | undefined value.
Truthy(v) == v /= Null /\ v /= Undefined /\ v /= <<>>

UndefinedValue == [t |-> "undefined", m |-> <<>>]
NullValue == [t |-> "null", m |-> <<>>]
NumberValue == [t |-> "number", m |-> <<>>]
ObjectValue(m) == [t |-> "object", m |-> m]

\* value[key] in JavaScript: a TypeError on undefined and null, undefined for
\* a key the value does not have.
Index(value, key) ==
  IF value.t \in {"undefined", "null"}
    THEN [threw |-> TRUE, v |-> Undefined]
    ELSE [threw |-> FALSE,
          v |-> IF key \in DOMAIN value.m THEN value.m[key] ELSE Undefined]

\* String.prototype.indexOf(tok) == -1
Lacks(s, tok) == \A i \in 1..Len(s) : s[i] /= tok

\* String.prototype.includes(tok)
Includes(s, tok) == \E i \in 1..Len(s) : s[i] = tok

\* The position of the first tok in s at or after i, Len(s) + 1 if none.
RECURSIVE FirstFrom(_, _, _)
FirstFrom(s, tok, i) ==
  IF i > Len(s) \/ s[i] = tok THEN i ELSE FirstFrom(s, tok, i + 1)

\* String.prototype.split(sep): the sequence of the pieces between the seps.
RECURSIVE Split(_, _)
Split(s, sep) ==
  LET k == FirstFrom(s, sep, 1) IN
  IF k > Len(s)
    THEN << s >>
    ELSE << SubSeq(s, 1, k - 1) >> \o Split(SubSeq(s, k + 1, Len(s)), sep)

\* array[i] (0-based): undefined past the end.
At(pieces, i) == IF i + 1 <= Len(pieces) THEN pieces[i + 1] ELSE Undefined

----------------------------------------------------------------------------
\* Request headers (a Headers object: names are case-insensitive)

HeaderNames == {"content-length", "content-type", "response-content-type"}

\* The lower-cased form of a header name the code uses.
Lower(name) ==
  CASE name = "Content-Length" -> "content-length"
    [] name = "Content-Type" -> "content-type"
    [] name = "Response-Content-Type" -> "response-content-type"
    [] OTHER -> name

\* request.headers.get(name): null when the header is not set.
HeadersGet(headers, name) == headers[Lower(name)]

\* request.headers.set(name, value)
HeadersSet(headers, name, value) == [headers EXCEPT ![Lower(name)] = value]

\* setHeaders(request, headers): every key of `headers` is set on the request.
RECURSIVE SetAll(_, _, _)
SetAll(headers, m, keys) ==
  IF keys = {} THEN headers
  ELSE LET k == CHOOSE x \in keys : TRUE IN
       SetAll(HeadersSet(headers, k, m[k]), m, keys \ {k})

setHeaders(request, headers) ==
  IF headers.t = "object"
    THEN [request EXCEPT !.headers = SetAll(@, headers.m, DOMAIN headers.m)]
    ELSE request

\* parseInt(string): [nan, n].  NaN compares false with everything.
NaN == [nan |-> TRUE, n |-> 0]
parseInt(s) ==
  IF s = <<"42">> THEN [nan |-> FALSE, n |-> 42]
  ELSE IF s = <<"0">> THEN [nan |-> FALSE, n |-> 0]
  ELSE NaN

GreaterThan(x, k) == ~x.nan /\ x.n > k

----------------------------------------------------------------------------
\* StringService.parseQueryParamsString (src/services/string_service.ts is
\* not among the sources: modelled from spec.md, section 4.1: key=value pairs
\* joined by "&", the last occurrence of a key wins).

\* The key and the value of a key=value token.
PairTokens == {"response_content_type=text/html", "response_content_type=text/plain",
               "response_content_type=", "a=1"}
PairKey(tok) == IF tok = "a=1" THEN "a" ELSE "response_content_type"
PairVal(tok) ==
  CASE tok = "response_content_type=text/html" -> <<"text/html">>
    [] tok = "response_content_type=text/plain" -> <<"text/plain">>
    [] tok = "response_content_type=" -> <<>>
    [] OTHER -> <<"1">>

\* A piece that is no key=value token is a key of its own without a value.
RECURSIVE PairsToMap(_, _)
PairsToMap(pieces, i) ==
  IF i > Len(pieces) THEN <<>>
  ELSE LET p == pieces[i]
           one == IF Len(p) = 1 /\ p[1] \in PairTokens
                    THEN PairKey(p[1]) :> PairVal(p[1])
                    ELSE "#raw" :> Undefined
       IN  IF p = <<>> THEN PairsToMap(pieces, i + 1)
           ELSE PairsToMap(pieces, i + 1) @@ one

parseQueryParamsString(s) ==
  IF ~Truthy(s) THEN <<>> ELSE PairsToMap(Split(s, "&"), 1)

----------------------------------------------------------------------------
\* URL decomposition

getUrlPath(request) ==
  IF request.url = <<"/">> THEN request.url
  ELSE IF Lacks(request.url, "?") THEN request.url
  ELSE At(Split(request.url, "?"), 0)

getUrlQueryString(request) ==
  IF Lacks(request.url, "?") THEN Null
  ELSE At(Split(request.url, "?"), 1)

getUrlQueryParams(request) ==
  parseQueryParamsString(getUrlQueryString(request))

----------------------------------------------------------------------------
\* Response content-type negotiation

ApplicationJson == <<"application/json">>

\* value.response_content_type, for a value that is an object or undefined.
Field(value, key) ==
  IF value.t = "object" /\ key \in DOMAIN value.m THEN value.m[key] ELSE Undefined

\* A variant that checks the query parameter before the header, so that the
\* header overwrites it.
getResponseContentTypeHeaderLast(request, defaultContentType) ==
  LET default == IF Truthy(defaultContentType) THEN defaultContentType
                 ELSE ApplicationJson
      c1 == IF Truthy(Field(ObjectValue(request.url_query_params), "response_content_type"))
              THEN request.url_query_params["response_content_type"] ELSE Null
      c2 == IF Truthy(HeadersGet(request.headers, "Response-Content-Type"))
              THEN HeadersGet(request.headers, "Response-Content-Type") ELSE c1
      c3 == IF request.parsed_body.t = "object"
               /\ Truthy(Field(request.parsed_body, "response_content_type"))
              THEN request.parsed_body.m["response_content_type"] ELSE c2
  IN  IF ~Truthy(c3) THEN default ELSE c3

getResponseContentType(request, defaultContentType) ==
  LET default == IF Truthy(defaultContentType) THEN defaultContentType
                 ELSE ApplicationJson
      c0 == Null
      c1 == IF Truthy(HeadersGet(request.headers, "Response-Content-Type"))
              THEN HeadersGet(request.headers, "Response-Content-Type") ELSE c0
      c2 == IF Truthy(Field(ObjectValue(request.url_query_params), "response_content_type"))
              THEN request.url_query_params["response_content_type"] ELSE c1
      c3 == IF request.parsed_body.t = "object"
               /\ Truthy(Field(request.parsed_body, "response_content_type"))
              THEN request.parsed_body.m["response_content_type"] ELSE c2
  IN  IF ~Truthy(c3) THEN default ELSE c3

----------------------------------------------------------------------------
\* Body presence

\* hasBody is an async function: what its caller gets is a Promise, which
\* settles to `value`.
hasBody(request) ==
  LET r1 == GreaterThan(parseInt(HeadersGet(request.headers, "content-length")), 0)
      r2 == IF ~r1
              THEN GreaterThan(parseInt(HeadersGet(request.headers, "Content-Length")), 0)
              ELSE r1
  IN  [t |-> "promise", value |-> r2]

\* !x for a value that is a Promise or a boolean: an object is never falsy.
Not(x) == IF x.t = "promise" THEN FALSE ELSE ~x.value

----------------------------------------------------------------------------
\* The request's body stream (a Deno.Reader): `rest` is what has not been
\* read yet, `broken` a stream whose read fails.

\* Deno.readAll(request.body): everything up to the end of the stream, which
\* is left at its end.
readAll(body) ==
  [threw |-> body.broken,
   text |-> body.rest,
   body |-> [body EXCEPT !.rest = <<>>]]

\* body.replace(/\"/g, ""): each token without its double quotes.
StripQuotes(tok) ==
  CASE tok = "\"a\":\"1\"" -> "a:1"
    [] tok = "\"response_content_type\":\"text/plain\"" -> "response_content_type:text/plain"
    [] OTHER -> tok

StripAll(s) == [i \in 1..Len(s) |-> StripQuotes(s[i])]

\* parseBodyAsFormUrlEncoded(request): [threw, data, body].
parseBodyAsFormUrlEncoded(request) ==
  LET r == readAll(request.body)
      b1 == IF ~Lacks(r.text, "?") THEN At(Split(r.text, "?"), 1) ELSE r.text
      b2 == StripAll(b1)
  IN  [threw |-> r.threw,
       data |-> IF r.threw THEN UndefinedValue
                ELSE ObjectValue(parseQueryParamsString(b2)),
       body |-> r.body]

\* JSON.parse on the texts of the model: null, a number, or an object of
\* "key":"value" members separated by commas; a SyntaxError on anything else
\* (the empty text included).
JsonPairTokens == {"\"a\":\"1\"", "\"response_content_type\":\"text/plain\""}
JsonKey(tok) == IF tok = "\"a\":\"1\"" THEN "a" ELSE "response_content_type"
JsonVal(tok) == IF tok = "\"a\":\"1\"" THEN <<"1">> ELSE <<"text/plain">>

\* The text between the braces: pairs at the odd places, commas between.
JsonMembersOk(inner) ==
  \/ Len(inner) = 0
  \/ /\ Len(inner) % 2 = 1
     /\ \A i \in 1..Len(inner) :
          IF i % 2 = 1 THEN inner[i] \in JsonPairTokens ELSE inner[i] = ","

\* A repeated key keeps its last value.
RECURSIVE JsonMembers(_, _)
JsonMembers(inner, i) ==
  IF i > Len(inner) THEN <<>>
  ELSE JsonMembers(inner, i + 2) @@ (JsonKey(inner[i]) :> JsonVal(inner[i]))

JSONParse(s) ==
  IF s = <<"null">> THEN [threw |-> FALSE, value |-> NullValue]
  ELSE IF s = <<"1">> THEN [threw |-> FALSE, value |-> NumberValue]
  ELSE IF Len(s) >= 2 /\ s[1] = "{" /\ s[Len(s)] = "}"
            /\ JsonMembersOk(SubSeq(s, 2, Len(s) - 1))
    THEN [threw |-> FALSE,
          value |-> ObjectValue(JsonMembers(SubSeq(s, 2, Len(s) - 1), 1))]
  ELSE [threw |-> TRUE, value |-> UndefinedValue]

\* parseBodyAsJson(request): [threw, data, body].
parseBodyAsJson(request) ==
  LET r == readAll(request.body)
      j == JSONParse(r.text)
  IN  [threw |-> r.threw \/ j.threw,
       data |-> IF r.threw \/ j.threw THEN UndefinedValue ELSE j.value,
       body |-> r.body]

----------------------------------------------------------------------------
\* Numbers of bytes.  options.memory_allocation.multipart_form_data grows by
\* factors of 1024 * 1024, past what a 32-bit integer holds, so a number is
\* kept as [t, mb, scale] and stands for mb * MiB^scale (exact in the code's
\* doubles for every value the model reaches).

MiB == 1048576
UndefinedNumber == [t |-> "undefined", mb |-> 0, scale |-> 0]
Number(mb, scale) == [t |-> "number", mb |-> mb, scale |-> scale]

\* !x for a number | undefined
FalsyNumber(x) == x.t = "undefined" \/ x.mb = 0

\* x * (1024 * 1024)
TimesMiB(x) == [x EXCEPT !.scale = @ + 1]

\* size (in MiB) > limit, for a limit below MiB^2 only when its scale says so.
Exceeds(sizeMiB, limit) ==
  CASE limit.t = "undefined" -> FALSE
    [] limit.scale = 0 -> sizeMiB * MiB > limit.mb
    [] limit.scale = 1 -> sizeMiB > limit.mb
    [] OTHER -> limit.mb = 0 /\ sizeMiB > 0

----------------------------------------------------------------------------
\* multipart/form-data (MultipartReader of Deno's standard library, an
\* external collaborator: modelled from spec.md, sections 4.3 and 5)

\* contentType.match(/boundary=([^\s]+)/): the boundary, null without one.
BoundaryMatch(contentType) ==
  IF Includes(contentType, "boundary=B") THEN <<"B">> ELSE Null

PartTokens == {"part:a=1", "part:response_content_type=text/plain", "part:big"}
PartName(tok) ==
  CASE tok = "part:a=1" -> "a"
    [] tok = "part:big" -> "big"
    [] OTHER -> "response_content_type"
PartValue(tok) ==
  CASE tok = "part:a=1" -> <<"1">>
    [] tok = "part:big" -> <<"...">>
    [] OTHER -> <<"text/plain">>
\* The size of a part, in MiB.
PartSize(tok) == IF tok = "part:big" THEN 200 ELSE 0

RECURSIVE PartsSize(_, _)
PartsSize(parts, i) ==
  IF i > Len(parts) THEN 0 ELSE PartSize(parts[i]) + PartsSize(parts, i + 1)

RECURSIVE PartsMap(_, _)
PartsMap(parts, i) ==
  IF i > Len(parts) THEN <<>>
  ELSE PartsMap(parts, i + 1) @@ (PartName(parts[i]) :> PartValue(parts[i]))

\* new MultipartReader(body, boundary).readForm(maxMemory): the parts between
\* "--B" and the closing "--B--"; fails on a failed read, on a body that is
\* not framed by the boundary and on parts larger than maxMemory.
readForm(body, boundary, maxMemory) ==
  LET text == body.rest
      framed == /\ boundary = <<"B">>
                /\ Len(text) >= 2
                /\ text[1] = "--B"
                /\ text[Len(text)] = "--B--"
                /\ \A i \in 2..(Len(text) - 1) : text[i] \in PartTokens
      parts == IF framed THEN SubSeq(text, 2, Len(text) - 1) ELSE <<>>
      bad == body.broken \/ ~framed \/ Exceeds(PartsSize(parts, 1), maxMemory)
  IN  [threw |-> bad,
       data |-> IF bad THEN UndefinedValue ELSE ObjectValue(PartsMap(parts, 1)),
       body |-> [body EXCEPT !.rest = <<>>]]

\* parseBodyAsMultipartFormData(body, boundary, maxMemory): [threw, data, body].
parseBodyAsMultipartFormData(body, boundary, maxMemory) ==
  readForm(body, boundary, maxMemory)

----------------------------------------------------------------------------
\* parseBody

MultipartFormData == <<"multipart/form-data">>
FormUrlEncoded == <<"application/x-www-form-urlencoded">>

NoError == ""
ErrorDefault ==
  "Error reading request body. No Content-Type header was specified. Therefore, the body was parsed as application/x-www-form-urlencoded by default and failed."
ErrorMultipart == "Error reading request body as multipart/form-data."
ErrorJson == "Error reading request body as application/json."
ErrorFormUrlEncoded == "Error reading request body as application/x-www-form-urlencoded."
\* options.memory_allocation is undefined: reading its multipart_form_data throws.
TypeError == "TypeError"

EmptyParsedBody == [content_type |-> Undefined, data |-> UndefinedValue]

\* The state of one parseBody call: its `ret`, the body stream, the error it
\* threw (NoError while it runs), and, as a record of what happened, the
\* decoder branches entered (calls) and the number of reads of the stream.
StartParse(request) ==
  [ret |-> EmptyParsedBody, body |-> request.body, error |-> NoError,
   calls |-> <<>>, reads |-> 0]

\* One decoder branch has run: try { ret.data = r; ret.content_type = type }
\* catch (error) { throw new Error(message + error.stack) }
Decoded(st, branch, type, r, limit, message, read) ==
  [ret |-> IF r.threw THEN st.ret ELSE [content_type |-> type, data |-> r.data],
   body |-> r.body,
   error |-> IF r.threw THEN message ELSE NoError,
   calls |-> Append(st.calls, [branch |-> branch, threw |-> r.threw,
                               data |-> r.data, limit |-> limit, read |-> read]),
   reads |-> st.reads + (IF read THEN 1 ELSE 0)]

\* if (!contentType) { ... }
BranchDefault(st, contentType) ==
  IF st.error = NoError /\ ~Truthy(contentType)
    THEN Decoded(st, "default", FormUrlEncoded, parseBodyAsFormUrlEncoded(st),
                 UndefinedNumber, ErrorDefault, TRUE)
    ELSE st

\* if (contentType && contentType.includes("multipart/form-data")) { ... }
\* Without a boundary, match(...)[1] throws inside the try, before the call.
BranchMultipart(st, contentType, maxMemory) ==
  IF st.error = NoError /\ Truthy(contentType) /\ Includes(contentType, "multipart/form-data")
    THEN IF BoundaryMatch(contentType) = Null
           THEN Decoded(st, "multipart/form-data", MultipartFormData,
                        [threw |-> TRUE, data |-> UndefinedValue, body |-> st.body],
                        UndefinedNumber, ErrorMultipart, FALSE)
           ELSE Decoded(st, "multipart/form-data", MultipartFormData,
                        parseBodyAsMultipartFormData(st.body, BoundaryMatch(contentType),
                                                     maxMemory),
                        maxMemory, ErrorMultipart, TRUE)
    ELSE st

\* A variant whose catch block drops the error instead of rethrowing it.
BranchJsonSwallowing(st, contentType) ==
  IF st.error = NoError /\ Truthy(contentType) /\ Includes(contentType, "application/json")
    THEN [Decoded(st, "application/json", ApplicationJson, parseBodyAsJson(st),
                  UndefinedNumber, ErrorJson, TRUE) EXCEPT !.error = NoError]
    ELSE st

\* if (contentType && contentType.includes("application/json")) { ... }
BranchJson(st, contentType) ==
  IF st.error = NoError /\ Truthy(contentType) /\ Includes(contentType, "application/json")
    THEN Decoded(st, "application/json", ApplicationJson, parseBodyAsJson(st),
                 UndefinedNumber, ErrorJson, TRUE)
    ELSE st

\* A variant written as an `else if`: skipped once an earlier branch decoded.
BranchFormUrlEncodedElseIf(st, contentType) ==
  IF st.error = NoError /\ Truthy(contentType) /\ st.calls = <<>>
       /\ Includes(contentType, "application/x-www-form-urlencoded")
    THEN Decoded(st, "application/x-www-form-urlencoded", FormUrlEncoded,
                 parseBodyAsFormUrlEncoded(st), UndefinedNumber, ErrorFormUrlEncoded, TRUE)
    ELSE st

\* if (contentType && contentType.includes("application/x-www-form-urlencoded")) { ... }
BranchFormUrlEncoded(st, contentType) ==
  IF st.error = NoError /\ Truthy(contentType)
       /\ Includes(contentType, "application/x-www-form-urlencoded")
    THEN Decoded(st, "application/x-www-form-urlencoded", FormUrlEncoded,
                 parseBodyAsFormUrlEncoded(st), UndefinedNumber, ErrorFormUrlEncoded, TRUE)
    ELSE st

\* options.memory_allocation.multipart_form_data after the normalisation.
Normalised(x) == IF FalsyNumber(x) THEN Number(128, 1) ELSE TimesMiB(x)

\* parseBody(request, options): the final state of the call and the options
\* object as the call leaves it.
parseBody(request, options) ==
  LET st0 == StartParse(request) IN
  IF Not(hasBody(request)) THEN [st |-> st0, options |-> options]
  ELSE IF options.memory_allocation.t = "undefined"
    THEN [st |-> [st0 EXCEPT !.error = TypeError], options |-> options]
  ELSE
    LET opts == [options EXCEPT !.memory_allocation.multipart_form_data = Normalised(@)]
        contentType == HeadersGet(request.headers, "Content-Type")
        st1 == BranchDefault(st0, contentType)
        st2 == BranchMultipart(st1, contentType,
                               opts.memory_allocation.multipart_form_data)
        st3 == BranchJson(st2, contentType)
        st4 == BranchFormUrlEncoded(st3, contentType)
    IN  [st |-> st4, options |-> opts]

----------------------------------------------------------------------------
\* hydrate

Accessors == {"getBodyFile", "getBodyParam", "getHeaderParam", "getPathParam",
              "getQueryParam"}

\* hydrate(request, options): the request and the options object as the call
\* leaves them, the ParsedBody `pb` its accessors close over, the parseBody
\* call's record, and the error the returned promise rejects with (NoError
\* when it resolves with the request).
hydrate(request, options) ==
  LET r1 == IF options.headers.t = "object" THEN setHeaders(request, options.headers)
            ELSE request
      r2 == [r1 EXCEPT !.url_path = getUrlPath(r1)]
      r3 == [r2 EXCEPT !.url_query_params = getUrlQueryParams(r2)]
      r4 == [r3 EXCEPT !.response_content_type =
                          getResponseContentType(r3, options.default_response_content_type)]
      p == parseBody(r4, options)
      r5 == [r4 EXCEPT !.body = p.st.body]
  IN  [request |-> IF p.st.error = NoError THEN [r5 EXCEPT !.accessors = Accessors]
                   ELSE r5,
       options |-> p.options,
       pb |-> p.st.ret,
       parse |-> p.st,
       error |-> p.st.error]

\* getRequestBodyParam(parsedBody, input) and getRequestBodyFile(parsedBody,
\* input): [threw, v].
getRequestBodyParam(parsedBody, input) == Index(parsedBody.data, input)
getRequestBodyFile(parsedBody, input) == Index(parsedBody.data, input)

----------------------------------------------------------------------------
\* The requests and configurations of the model

Urls ==
  { <<"/">>,
    <<"/a", "?", "response_content_type=text/html">>,
    <<"/a", "?", "a=1", "&", "response_content_type=">>,
    <<"/a", "?", "a=1", "?", "response_content_type=text/html">> }

ContentLengths == { Null, <<"abc">>, <<"0">>, <<"42">> }

ContentTypes ==
  { Null,
    <<"text/plain">>,
    <<"application/json">>,
    <<"application/x-www-form-urlencoded">>,
    <<"multipart/form-data", "boundary=B">>,
    <<"multipart/form-data">>,
    <<"application/json", "application/x-www-form-urlencoded">>,
    <<"multipart/form-data", "boundary=B", "application/json">>,
    <<"multipart/form-data", "boundary=B", "application/x-www-form-urlencoded">>,
    <<"multipart/form-data", "boundary=B", "application/json",
      "application/x-www-form-urlencoded">> }

ResponseContentTypeHeaders == { Null, <<"text/xml">> }

Stream(text) == [rest |-> text, broken |-> FALSE]
Bodies ==
  { Stream(<<>>),
    Stream(<<"a=1", "&", "response_content_type=text/plain">>),
    Stream(<<"{", "\"a\":\"1\"", ",", "\"response_content_type\":\"text/plain\"", "}">>),
    Stream(<<"null">>),
    Stream(<<"{", "\"a\":\"1\"">>),
    Stream(<<"--B", "part:a=1", "part:response_content_type=text/plain", "--B--">>),
    Stream(<<"--B", "part:big", "--B--">>),
    [rest |-> <<"a=1">>, broken |-> TRUE] }

\* options.memory_allocation: absent, or with multipart_form_data absent or
\* a number of megabytes.
MemoryAllocations ==
  { [t |-> "undefined", multipart_form_data |-> UndefinedNumber],
    [t |-> "object", multipart_form_data |-> UndefinedNumber],
    [t |-> "object", multipart_form_data |-> Number(1, 0)],
    [t |-> "object", multipart_form_data |-> Number(2, 0)] }

OptionHeaders == { UndefinedValue, ObjectValue("Response-Content-Type" :> <<"text/csv">>) }

DefaultResponseContentTypes == { Undefined, <<"text/yaml">> }

BlankRequest ==
  [url |-> <<>>,
   headers |-> [h \in HeaderNames |-> Null],
   body |-> Stream(<<>>),
   parsed_body |-> UndefinedValue,
   url_path |-> Undefined,
   url_query_params |-> <<>>,
   response_content_type |-> Undefined,
   accessors |-> {}]

NoCall == [fn |-> "none"]

----------------------------------------------------------------------------
\* The state machine: one server, its options object, one request at a time

VARIABLES
  options,      \* the options object every hydrate call is handed
  configured,   \* options.memory_allocation as the server was configured
  pc,           \* "idle", "received", "hydrated", "failed" or "called"
  request,      \* the request being handled
  pb,           \* the ParsedBody the request's accessors close over
  parse,        \* the record of the request's parseBody call
  error,        \* the error hydrate threw for the request
  handled,      \* the number of requests received so far
  call          \* the last call of an accessor or of a function by itself

vars == <<options, configured, pc, request, pb, parse, error, handled, call>>

Init ==
  /\ options \in [headers : OptionHeaders,
                  default_response_content_type : DefaultResponseContentTypes,
                  memory_allocation : MemoryAllocations]
  /\ configured = options.memory_allocation
  /\ pc = "idle"
  /\ request = BlankRequest
  /\ pb = EmptyParsedBody
  /\ parse = StartParse(BlankRequest)
  /\ error = NoError
  /\ handled = 0
  /\ call = NoCall

\* The listener hands over a raw request.
Receive ==
  /\ pc = "idle"
  /\ handled < MaxRequests
  /\ \E url \in Urls, cl \in ContentLengths, ct \in ContentTypes,
        rct \in ResponseContentTypeHeaders, body \in Bodies :
       request' = [BlankRequest EXCEPT
                     !.url = url,
                     !.headers = [h \in HeaderNames |->
                                    CASE h = "content-length" -> cl
                                      [] h = "content-type" -> ct
                                      [] OTHER -> rct],
                     !.body = body]
  /\ pc' = "received"
  /\ handled' = handled + 1
  /\ pb' = EmptyParsedBody
  /\ parse' = StartParse(request')
  /\ error' = NoError
  /\ call' = NoCall
  /\ UNCHANGED <<options, configured>>

\* The server calls hydrate(request, options).
Hydrate ==
  /\ pc = "received"
  /\ LET h == hydrate(request, options) IN
       /\ request' = h.request
       /\ options' = h.options
       /\ pb' = h.pb
       /\ parse' = h.parse
       /\ error' = h.error
       /\ pc' = IF h.error = NoError THEN "hydrated" ELSE "failed"
  /\ UNCHANGED <<configured, handled, call>>

BodyKeys == {"a", "missing"}

\* A handler calls request.getBodyParam(input).
GetBodyParam ==
  /\ pc = "hydrated"
  /\ "getBodyParam" \in request.accessors
  /\ \E input \in BodyKeys :
       LET r == getRequestBodyParam(pb, input) IN
       call' = [fn |-> "getBodyParam", input |-> input, threw |-> r.threw, ret |-> r.v]
  /\ UNCHANGED <<options, configured, pc, request, pb, parse, error, handled>>

\* A handler calls request.getBodyFile(input).
GetBodyFile ==
  /\ pc = "hydrated"
  /\ "getBodyFile" \in request.accessors
  /\ \E input \in BodyKeys :
       LET r == getRequestBodyFile(pb, input) IN
       call' = [fn |-> "getBodyFile", input |-> input, threw |-> r.threw, ret |-> r.v]
  /\ UNCHANGED <<options, configured, pc, request, pb, parse, error, handled>>

\* The response is sent and the request discarded (or the call by itself has
\* returned).
Finish ==
  /\ pc \in {"hydrated", "failed", "called"}
  /\ pc' = "idle"
  /\ request' = BlankRequest
  /\ pb' = EmptyParsedBody
  /\ parse' = StartParse(BlankRequest)
  /\ error' = NoError
  /\ call' = NoCall
  /\ UNCHANGED <<options, configured, handled>>

\* The inputs of a call of getResponseContentType by itself.
QueryParamMaps ==
  { <<>>,
    "response_content_type" :> <<"text/html">>,
    "response_content_type" :> <<>>,
    "a" :> <<"1">> }
ParsedBodies ==
  { UndefinedValue,
    ObjectValue(<<>>),
    ObjectValue("response_content_type" :> <<>>),
    ObjectValue("response_content_type" :> <<"text/plain">>) }

\* getResponseContentType(request, defaultContentType) is called by itself,
\* on a request that may carry a parsed_body.
CallGetResponseContentType ==
  /\ pc = "idle"
  /\ \E header \in {Null, <<>>, <<"text/xml">>}, query \in QueryParamMaps,
        body \in ParsedBodies, default \in {Undefined, <<>>, <<"text/yaml">>} :
       LET req == [BlankRequest EXCEPT
                     !.headers["response-content-type"] = header,
                     !.url_query_params = query,
                     !.parsed_body = body]
       IN  call' = [fn |-> "getResponseContentType", request |-> req,
                    default |-> default,
                    ret |-> getResponseContentType(req, default)]
  /\ pc' = "called"
  /\ UNCHANGED <<options, configured, request, pb, parse, error, handled>>

UrlTokens == {"/a", "?", "a=1"}
UrlsUpTo(n) == UNION { [1..k -> UrlTokens] : k \in 1..n }

\* getUrlQueryString(request) and getUrlPath(request) are called by
\* themselves.
CallGetUrlQueryString ==
  /\ pc = "idle"
  /\ \E url \in UrlsUpTo(MaxUrlLen) :
       LET req == [BlankRequest EXCEPT !.url = url] IN
       call' = [fn |-> "getUrlQueryString", request |-> req,
                ret |-> getUrlQueryString(req),
                path |-> getUrlPath(req)]
  /\ pc' = "called"
  /\ UNCHANGED <<options, configured, request, pb, parse, error, handled>>

Next ==
  \/ Receive
  \/ Hydrate
  \/ GetBodyParam
  \/ GetBodyFile
  \/ Finish
  \/ CallGetResponseContentType
  \/ CallGetUrlQueryString

Spec == Init /\ [][Next]_vars

----------------------------------------------------------------------------
\* Properties

\* hydrate has returned the request, or has thrown.
Returned == pc = "hydrated"
Threw == pc = "failed"
Done == Returned \/ Threw

DeclaredContentType == HeadersGet(request.headers, "Content-Type")

DecoderBranches ==
  << "multipart/form-data", "application/json", "application/x-www-form-urlencoded" >>

\* The decoder branches the request's Content-Type matches, in the code's order.
Matching(contentType) ==
  IF Truthy(contentType)
    THEN SelectSeq(DecoderBranches, LAMBDA b : Includes(contentType, b))
    ELSE <<>>

\* C1: after hydrate has returned a request whose decoded body has a
\* non-empty response_content_type field, request.response_content_type is
\* that field, whatever the query parameter, the header and the default are.
C1_BodyWins ==
  (Returned /\ pb.data.t = "object"
     /\ Truthy(Field(pb.data, "response_content_type")))
  => request.response_content_type = pb.data.m["response_content_type"]

\* C2: parseBody on a request for which hasBody is false returns the empty
\* ParsedBody, reads nothing from the body stream and calls no decoder.
C2_NoBodyNoRead ==
  (Done /\ ~hasBody(request).value)
  => /\ error = NoError
     /\ parse.ret = EmptyParsedBody
     /\ parse.reads = 0
     /\ parse.calls = <<>>

\* C3: during one hydrate call the body stream is read at most once,
\* whatever the Content-Type header is.
C3_ReadAtMostOnce == Done => parse.reads <= 1

\* The byte limit the configuration asks for: its megabytes times 1,048,576,
\* or 128 MiB when none was configured.
ConfiguredLimit ==
  IF configured.multipart_form_data.t = "undefined"
    THEN Number(128, 1)
    ELSE Number(configured.multipart_form_data.mb, 1)

\* C4: for every request handled with the same options object, the limit
\* handed to the multipart decoder is the configured one; an earlier request
\* does not change it.
C4_LimitIsConfigured ==
  \A i \in 1..Len(parse.calls) :
    (parse.calls[i].branch = "multipart/form-data" /\ parse.calls[i].read)
    => parse.calls[i].limit = ConfiguredLimit

\* C5: on a request hydrate returned, getBodyParam(name) and
\* getBodyFile(name) with a name that is no key of the parsed body yield
\* undefined and do not raise, also when the parsed body has no data.
C5_MissingKeyIsUndefined ==
  (Returned /\ call.fn \in {"getBodyParam", "getBodyFile"}
     /\ call.input \notin DOMAIN pb.data.m)
  => (~call.threw /\ call.ret = Undefined)

\* What C6 says getResponseContentType returns without a body field.
Negotiated(query, header, default) ==
  IF Truthy(query) THEN query
  ELSE IF Truthy(header) THEN header
  ELSE IF Truthy(default) THEN default
  ELSE <<"application/json">>

QueryParam(req) ==
  IF "response_content_type" \in DOMAIN req.url_query_params
    THEN req.url_query_params["response_content_type"] ELSE Undefined

\* C6: when the request body supplies no response_content_type,
\* getResponseContentType returns the query parameter if it is non-empty,
\* otherwise the Response-Content-Type header if it is non-empty, otherwise
\* the default, or "application/json" when the default is empty or omitted:
\* for a call by itself and for the call hydrate makes.
C6_QueryThenHeaderThenDefault ==
  /\ (call.fn = "getResponseContentType"
        /\ ~Truthy(Field(call.request.parsed_body, "response_content_type")))
     => call.ret = Negotiated(QueryParam(call.request),
                              call.request.headers["response-content-type"],
                              call.default)
  /\ (Done /\ ~Truthy(Field(request.parsed_body, "response_content_type")))
     => request.response_content_type =
          Negotiated(QueryParam(request), request.headers["response-content-type"],
                     options.default_response_content_type)

\* A call whose body field and query parameter are empty strings: the header
\* decides, before the default.
C6_Witness ==
  /\ call.fn = "getResponseContentType"
  /\ call.request.parsed_body = ObjectValue("response_content_type" :> <<>>)
  /\ QueryParam(call.request) = <<>>
  /\ call.request.headers["response-content-type"] = <<"text/xml">>
  /\ call.default = <<"text/yaml">>
  /\ call.ret = <<"text/xml">>

\* The request has a body whose declared Content-Type is none of the three.
Unrecognised(contentType) == Truthy(contentType) /\ Matching(contentType) = <<>>

\* C7: in every ParsedBody parseBody returns, data is absent exactly when
\* the request has no body or its declared Content-Type is none of the three
\* recognised ones; otherwise data is a mapping and content_type the type
\* that was decoded.
C7_DataAbsentIff ==
  Returned =>
    /\ (pb.data.t = "undefined")
         <=> (~hasBody(request).value \/ Unrecognised(DeclaredContentType))
    /\ pb.data.t /= "undefined"
         => /\ pb.data.t = "object"
            /\ Len(parse.calls) > 0
            /\ pb.content_type =
                 (IF parse.calls[Len(parse.calls)].branch = "default"
                    THEN FormUrlEncoded
                    ELSE << parse.calls[Len(parse.calls)].branch >>)

\* The message parseBody throws when the decoder of a branch fails.
MessageOf(branch) ==
  CASE branch = "default" -> ErrorDefault
    [] branch = "multipart/form-data" -> ErrorMultipart
    [] branch = "application/json" -> ErrorJson
    [] OTHER -> ErrorFormUrlEncoded

\* C8: whenever a decoder parseBody selected fails, hydrate throws the
\* error whose message names the content type attempted (the default path
\* has its own), returns no request and attaches no accessor.
C8_DecodeFailurePropagates ==
  \A i \in 1..Len(parse.calls) :
    parse.calls[i].threw
    => /\ Threw
       /\ error = MessageOf(parse.calls[i].branch)
       /\ error /= NoError
       /\ request.accessors = {}
       /\ i = Len(parse.calls)

\* A malformed JSON body under application/json.
C8_Witness ==
  /\ Threw
  /\ Len(parse.calls) = 1
  /\ parse.calls[1].branch = "application/json"
  /\ parse.calls[1].threw
  /\ error = ErrorJson

\* C9: getUrlQueryString returns null for a URL without "?", and otherwise
\* everything after the first "?", further "?" characters included.
C9_AfterFirstQuestionMark ==
  call.fn = "getUrlQueryString"
  => LET url == call.request.url
         k == FirstFrom(url, "?", 1)
     IN  call.ret = (IF k > Len(url) THEN Null ELSE SubSeq(url, k + 1, Len(url)))

\* C10: when the Content-Type matches more than one decoder branch, the
\* branches run in the order multipart/form-data, application/json,
\* application/x-www-form-urlencoded, none is skipped, and the ParsedBody
\* returned carries the content_type and the data of the last of them.
C10_LastMatchingBranchWins ==
  (Returned /\ Len(Matching(DeclaredContentType)) > 1)
  => LET n == Len(parse.calls) IN
     /\ [i \in 1..n |-> parse.calls[i].branch] = Matching(DeclaredContentType)
     /\ pb = [content_type |-> << parse.calls[n].branch >>,
              data |-> parse.calls[n].data]

\* application/json and application/x-www-form-urlencoded both match: both
\* decoders ran and the result is the form decoder's.
C10_Witness ==
  /\ Returned
  /\ DeclaredContentType = <<"application/json", "application/x-www-form-urlencoded">>
  /\ Len(parse.calls) = 2
  /\ pb.content_type = FormUrlEncoded
  /\ pb.data = ObjectValue(<<>>)

====
